---- MODULE Spec2Model ----
(***************************************************************************)
(* RAG ingestion API over a Milvus vector store: the chat orchestrator     *)
(* (main.py), the retrieval / classification / prompt pipeline (rag.py),   *)
(* the collection lifecycle and insert path (milvus_client.py) and the     *)
(* security-memory health check (security_memory/store.py).                *)
(*                                                                         *)
(* Text is modelled as a sequence of one-character strings, so that        *)
(* strip(), lower(), substring tests and the \b-anchored regular           *)
(* expressions of the classifier are computed character by character.      *)
(***************************************************************************)
EXTENDS Integers, Sequences, FiniteSets, TLC

VARIABLES
    cmsg,       \* classify_detail_level: the argument message
    cres,       \* classify_detail_level: the returned tier ("none" before the call)
    kind,       \* per request: the endpoint it calls ("none" before it arrives)
    pc,         \* per request: where its handler stands
    ens,        \* per request: where its ensure_collection / _search call stands
    pay,        \* per request: the payload as the handler reads it
    loc,        \* per request: the handler's local variables
    out,        \* per request: the response the caller gets
    cause,      \* per request: why it failed (which timer fired, or an error)
    trace,      \* per request: the stage starts (+) and completions (-) of _chat_impl
    coll,       \* the primary collection in the store: exists, indexes, loaded
    rows,       \* the rows written to the primary collection, in write order
    nVisible,   \* how many of them a flush has made visible to searches
    sec,        \* the security-memory collection in the store
    up,         \* the store answers (FALSE: connection refused / unreachable)
    hist,       \* per request: what was acknowledged when its retrieve began, what its search saw
    createCollectionCalls,  \* create-collection requests issued for the primary collection
    createIndexCalls,       \* create-index requests issued for the primary collection
    INGEST_COUNT,
    CHAT_COUNT,
    ERROR_COUNT,
    dim,        \* vector widths: of the schema (EMBEDDINGS_DIM), of the embedding model's
                \* output, and of the primary collection in the store
    arg,        \* a function applied on its own: its arguments; for the key check: the
                \* server's EDGE_API_KEY and the X-API-Key header of each request
    ret         \* a function applied on its own: <<>> before the call, <<result>> after

sysvars == <<kind, pc, ens, pay, loc, out, cause, trace, coll, rows, nVisible, sec, up, hist,
             createCollectionCalls, createIndexCalls, INGEST_COUNT, CHAT_COUNT, ERROR_COUNT,
             dim>>

vars == <<cmsg, cres, kind, pc, ens, pay, loc, out, cause, trace, coll, rows, nVisible,
          sec, up, hist, createCollectionCalls, createIndexCalls,
          INGEST_COUNT, CHAT_COUNT, ERROR_COUNT, dim, arg, ret>>

(***************************************************************************)
(* Character helpers (Python str / re semantics on the ASCII subset used)  *)
(***************************************************************************)
UpperChars == <<"A","B","C","D","E","F","G","H","I","J","K","L","M",
                "N","O","P","Q","R","S","T","U","V","W","X","Y","Z">>

LowerChars == <<"a","b","c","d","e","f","g","h","i","j","k","l","m",
                "n","o","p","q","r","s","t","u","v","w","x","y","z">>

DigitChars == {"0","1","2","3","4","5","6","7","8","9"}

SeqRange(s) == {s[i] : i \in 1..Len(s)}

\* str.lower() on one character
LowerChar(c) ==
    IF \E i \in 1..26 : UpperChars[i] = c
    THEN LowerChars[CHOOSE i \in 1..26 : UpperChars[i] = c]
    ELSE c

\* str.lower()
Lower(s) == [i \in 1..Len(s) |-> LowerChar(s[i])]

\* whitespace as str.strip() sees it
IsSpace(c) == c \in {" ", "\n", "\t"}

\* \w of the re module
IsWordChar(c) == c \in SeqRange(UpperChars) \cup SeqRange(LowerChars) \cup DigitChars \cup {"_"}

\* str.strip()
Strip(s) ==
    IF \A i \in 1..Len(s) : IsSpace(s[i]) THEN <<>>
    ELSE LET first == CHOOSE i \in 1..Len(s) :
                          /\ ~IsSpace(s[i])
                          /\ \A j \in 1..(i-1) : IsSpace(s[j])
             last  == CHOOSE i \in 1..Len(s) :
                          /\ ~IsSpace(s[i])
                          /\ \A j \in (i+1)..Len(s) : IsSpace(s[j])
         IN SubSeq(s, first, last)

\* w occurs in s starting at position i
OccursAt(s, w, i) ==
    /\ i >= 1
    /\ i + Len(w) - 1 <= Len(s)
    /\ \A j \in 1..Len(w) : s[i + j - 1] = w[j]

\* the test: w in s
Contains(s, w) == \E i \in 1..(Len(s) + 1) : OccursAt(s, w, i)

\* str.count(c) for a one-character c
CountChar(s, c) == Cardinality({i \in 1..Len(s) : s[i] = c})

\* is there a word character at position p of s (False outside the string)
WordAt(s, p) == p >= 1 /\ p <= Len(s) /\ IsWordChar(s[p])

\* \b between positions p-1 and p
Boundary(s, p) == WordAt(s, p - 1) # WordAt(s, p)

\* re.search(r"\b(w1|w2|...)\b", s) is not None
SearchWords(s, words) ==
    \E w \in words : \E i \in 1..(Len(s) + 1) :
        /\ OccursAt(s, w, i)
        /\ Boundary(s, i)
        /\ Boundary(s, i + Len(w))

(***************************************************************************)
(* rag.py: classify_detail_level                                           *)
(***************************************************************************)
\* the backquote character: SANY has no string for it, "bq" stands for it
BackQuote == "bq"

\* three backquotes
CodeFence == <<BackQuote, BackQuote, BackQuote>>

CliWords == {
    <<"d","o","c","k","e","r">>, <<"k","u","b","e","c","t","l">>,
    <<"c","u","r","l">>, <<"p","i","p">>, <<"c","o","n","d","a">>,
    <<"a","p","t","-","g","e","t">>, <<"b","r","e","w">> }

LogWords == {
    <<"t","r","a","c","e","b","a","c","k">>,
    <<"e","x","c","e","p","t","i","o","n">>,
    <<"s","t","a","c","k"," ","t","r","a","c","e">>,
    <<"e","r","r","o","r",":">>, <<"w","a","r","n","[">> }

ProtocolWords == {
    <<"h","t","t","p">>, <<"h","t","t","p","s">>, <<"g","r","p","c">>,
    <<"t","c","p">>, <<"u","d","p">>, <<"o","a","u","t","h">>, <<"j","w","t">> }

AcronymWords == {
    <<"R","A","G">>, <<"L","L","M">>, <<"A","P","I">>, <<"S","D","K">>,
    <<"T","L","S">>, <<"S","S","L">>, <<"C","V","E">>, <<"X","S","S">>,
    <<"C","S","R","F">>, <<"S","Q","L","i">>, <<"R","B","A","C">>, <<"I","A","M">> }

\* the length above which long_or_multi fires
LongLen == 180

\* the length up to which a query can be basic
BasicMaxLen == 60

\* the score from which a query is advanced
AdvancedMin == 3

has_code_block(m) == Contains(m, CodeFence)

has_cli(m) == SearchWords(Lower(m), CliWords)

has_logs(m) == SearchWords(Lower(m), LogWords)

has_protocols(m) == SearchWords(Lower(m), ProtocolWords)

has_acronyms(m) == SearchWords(m, AcronymWords)

long_or_multi(m) ==
    Len(m) > LongLen \/ CountChar(m, "?") >= 2 \/ CountChar(m, "\n") >= 3

\* the weighted sum with a CLI signal weighing three
advanced_score_cli3(m) ==
      (IF has_code_block(m) THEN 2 ELSE 0)
    + (IF has_cli(m)        THEN 3 ELSE 0)
    + (IF has_logs(m)       THEN 2 ELSE 0)
    + (IF has_protocols(m)  THEN 1 ELSE 0)
    + (IF has_acronyms(m)   THEN 1 ELSE 0)
    + (IF long_or_multi(m)  THEN 1 ELSE 0)

\* the weighted sum of the six signals, on the stripped message m
advanced_score(m) ==
      (IF has_code_block(m) THEN 2 ELSE 0)
    + (IF has_cli(m)        THEN 2 ELSE 0)
    + (IF has_logs(m)       THEN 2 ELSE 0)
    + (IF has_protocols(m)  THEN 1 ELSE 0)
    + (IF has_acronyms(m)   THEN 1 ELSE 0)
    + (IF long_or_multi(m)  THEN 1 ELSE 0)

\* the test that decides basic against standard, on the stripped message m
basic_test(m) ==
    /\ Len(m) <= BasicMaxLen
    /\ ~(has_cli(m) \/ has_logs(m) \/ has_protocols(m) \/ has_acronyms(m) \/ has_code_block(m))

classify_detail_level(message) ==
    LET m == Strip(message) IN
    IF m = <<>> THEN "basic"
    ELSE IF advanced_score(m) >= AdvancedMin THEN "advanced"
    ELSE IF basic_test(m) THEN "basic"
    ELSE "standard"

(***************************************************************************)
(* Inputs of the classifier: every subset of the six signals, each padded  *)
(* to the lengths around the two length thresholds, and some fixed texts.  *)
(***************************************************************************)
Signals == {"code", "cli", "logs", "proto", "acr", "struct"}

SignalOrder == <<"code", "cli", "logs", "proto", "acr", "struct">>

\* a text that fires exactly the signal sig
FragOf(sig) ==
    CASE sig = "code"   -> CodeFence
      [] sig = "cli"    -> <<"d","o","c","k","e","r">>
      [] sig = "logs"   -> <<"t","r","a","c","e","b","a","c","k">>
      [] sig = "proto"  -> <<"h","t","t","p">>
      [] sig = "acr"    -> <<"A","P","I">>
      [] sig = "struct" -> <<"?","?">>

RECURSIVE JoinFrags(_, _)
\* the fragments of the signals in S, from the i-th on, joined by one space
JoinFrags(S, i) ==
    IF i > Len(SignalOrder) THEN <<>>
    ELSE LET rest == JoinFrags(S, i + 1) IN
         IF SignalOrder[i] \in S
         THEN (IF rest = <<>> THEN FragOf(SignalOrder[i])
               ELSE FragOf(SignalOrder[i]) \o <<" ">> \o rest)
         ELSE rest

Filler(n) == [i \in 1..n |-> "x"]

\* base, followed by a filler word that brings it to the length target
PadTo(base, target) ==
    IF Len(base) + 2 > target THEN base
    ELSE IF base = <<>> THEN Filler(target)
    ELSE base \o <<" ">> \o Filler(target - Len(base) - 1)

PadTargets == {0, BasicMaxLen, BasicMaxLen + 1, LongLen, LongLen + 1}

DockerRunMsg == <<"d","o","c","k","e","r"," ","r","u","n"," ","-","i","t"," ","u","b","u","n","t","u">>

TwoQuestionsMsg == <<"w","h","a","t","?"," ","w","h","y","?">>

FixedMsgs == {
    <<>>,
    <<" ", " ", "\n">>,
    DockerRunMsg,
    TwoQuestionsMsg,
    <<" ", "h", "i", " ">>,
    <<"D","O","C","K","E","R">>,
    <<"a","p","i">>,
    <<"d","o","c","k","e","r","i","z","e">>,
    <<"e","r","r","o","r",":"," ","x">>,
    <<"e","r","r","o","r",":","x">>,
    <<"a","\n","b","\n","c","\n","d">> }

ClassifyInputs ==
    {PadTo(JoinFrags(S, 1), t) : S \in SUBSET Signals, t \in PadTargets} \cup FixedMsgs


(***************************************************************************)
(* The service: requests, payloads, the store                              *)
(***************************************************************************)
\* how many requests the service receives
NumReqs == 2

Reqs == 1..NumReqs

NoReq == NumReqs + 1

\* the documents a caller may ingest (ArticleIn), named by their title
Docs == {"docA", "docB"}

\* the embedding service: one vector per text, the same text giving the same vector
EmbedOf(text) == IF text = <<"h","i">> THEN "v1" ELSE "v2"

\* ArticleIn.text of a document
DocText(d) == IF d = "docA" THEN <<"h","i">> ELSE <<"T","L","S">>

\* the questions a caller may ask (ChatIn.message, 2..2000 characters)
ChatMsgs == { <<"h","i">>, <<"d","o","c","k","e","r"," ","A","P","I">> }

\* what the caller puts in ChatIn.detail_level: nothing, null, or a tier
DetailInputs == {"absent", "None", "basic"}

RAG_TOP_K == 4

\* milvus_client.py: EMBEDDINGS_DIM, the width of the schema's vector field
EMBEDDINGS_DIM == 768

\* the output widths of the embedding models named in milvus_client.py
\* (nomic-embed-text, all-MiniLM-L6-v2)
Widths == {384, EMBEDDINGS_DIM}

Stages == {"retrieve", "prompt", "generate"}

VectorField == "embedding"

NoPrompt == [style |-> "none", level |-> "none", context |-> <<>>, question |-> <<>>]

NoPay == [message |-> <<>>, given |-> "absent", detail_level |-> "None", doc |-> "none"]

NoLoc == [sawColl |-> FALSE, sawIdx |-> FALSE, vec |-> "none", rowIdx |-> 0,
          hits |-> <<>>, sources |-> <<>>, prompt |-> NoPrompt]

NoOut == [status |-> 0, detail |-> "", ok |-> "na", points |-> "na",
          hasAnswer |-> FALSE, answerTo |-> NoPrompt, sources |-> <<>>]

NoHist == [acked |-> {}, searched |-> FALSE, seen |-> 0, after |-> FALSE]

\* schemas.py: ChatIn.detail_level, as the handler reads it from the parsed payload
ChatIn_detail_level(given) == IF given = "absent" THEN "standard" ELSE given

\* main.py: the handlers' responses
HttpError(status, detail) == [NoOut EXCEPT !.status = status, !.detail = detail]

ChatTimeoutDetail(k) == IF k = "chat" THEN "Chat timed out." ELSE "debug/chat timed out."

\* an update that writes back a value read before another request's update
stale_increment(count) == IF count > 0 THEN count ELSE count + 1

\* `INGEST_COUNT += 1`, `CHAT_COUNT += 1`, `ERROR_COUNT += 1`: read and write
\* with no await between them
incremented(count) == count + 1

\* the rows an ingest has been answered "ok" for
AckedRows == {loc[q].rowIdx : q \in {x \in Reqs : kind[x] = "ingest" /\ out[x].status = 200}}

(***************************************************************************)
(* The event loop runs one handler at a time between two awaits; the       *)
(* worker threads of asyncio.to_thread run beside it.  A request holds     *)
(* the loop while it is inside a synchronous section.                      *)
(***************************************************************************)
InLoopEnsure(r) == kind[r] = "ingest" /\ pc[r] \in {"i_ensure1", "i_ensure2"}

\* a vector search run on the event loop itself instead of in a worker thread
Holding_with_search(r) ==
    \/ InLoopEnsure(r) /\ ens[r] \in {"open", "has_idx", "mk_idx", "load", "ret", "exc"}
    \/ kind[r] = "ingest" /\ pc[r] = "i_flush"
    \/ kind[r] \in {"chat", "debug_chat"} /\ pc[r] = "c_search"

Holding(r) ==
    \/ InLoopEnsure(r) /\ ens[r] \in {"open", "has_idx", "mk_idx", "load", "ret", "exc"}
    \/ kind[r] = "ingest" /\ pc[r] = "i_flush"

LoopFree(r) == \A q \in Reqs \ {r} : ~Holding(q)

InThread(r) == kind[r] \in {"chat", "debug_chat"}

\* may request r take a step of its ensure_collection call now
MayStep(r) == InThread(r) \/ (InLoopEnsure(r) /\ LoopFree(r))


(***************************************************************************)
(* milvus_client.py: ensure_collection, one step per request to the store  *)
(***************************************************************************)
\* ensure_collection: `if not utility.has_collection(MILVUS_COLLECTION)`
collection_absent(hasCollection) == ~hasCollection

\* an index created without asking whether one exists
index_unchecked(hasIndex) == TRUE

\* _ensure_index: `if collection.has_index(): return`
index_absent(hasIndex) == ~hasIndex

\* the store takes and searches vectors of the width of the collection's vector
\* field only
accepts(width) == width = dim.coll

\* has some call of ensure_collection returned: load() is its last store call,
\* and the collection starts released
AnyReturned == coll.loaded

\* the call of ensure_collection of request r is over
CallOver(r) == [hist EXCEPT ![r].after = FALSE]

\* _connect(), then utility.has_collection
EnsHasCollection(r) ==
    /\ ens[r] = "has_coll"
    /\ MayStep(r)
    /\ IF up
       THEN /\ loc' = [loc EXCEPT ![r].sawColl = coll.exists]
            /\ ens' = [ens EXCEPT ![r] = "open"]
            /\ UNCHANGED hist
       ELSE /\ ens' = [ens EXCEPT ![r] = "exc"]
            /\ hist' = CallOver(r)
            /\ UNCHANGED loc
    /\ UNCHANGED <<cmsg, cres, arg, ret, dim, kind, pc, pay, out, cause, trace, coll, rows, nVisible, sec,
                   up, createCollectionCalls, createIndexCalls,
                   INGEST_COUNT, CHAT_COUNT, ERROR_COUNT>>

\* Collection(name, schema=_build_schema()) when absent, Collection(name) otherwise
EnsOpen(r) ==
    /\ ens[r] = "open"
    /\ MayStep(r)
    /\ IF ~up
       THEN /\ ens' = [ens EXCEPT ![r] = "exc"]
            /\ hist' = CallOver(r)
            /\ UNCHANGED <<coll, createCollectionCalls, dim>>
       ELSE IF collection_absent(loc[r].sawColl)
       THEN /\ createCollectionCalls' = createCollectionCalls + 1
            /\ coll' = [coll EXCEPT !.exists = TRUE]
            /\ dim' = [dim EXCEPT !.coll = dim.schema]
            /\ ens' = [ens EXCEPT ![r] = "has_idx"]
            /\ UNCHANGED hist
       ELSE /\ ens' = [ens EXCEPT ![r] = IF coll.exists THEN "has_idx" ELSE "exc"]
            /\ hist' = IF coll.exists THEN hist ELSE CallOver(r)
            /\ UNCHANGED <<coll, createCollectionCalls, dim>>
    /\ UNCHANGED <<cmsg, cres, arg, ret, kind, pc, pay, loc, out, cause, trace, rows, nVisible, sec,
                   up, createIndexCalls, INGEST_COUNT, CHAT_COUNT, ERROR_COUNT>>

\* _ensure_index: collection.has_index()
EnsHasIndex(r) ==
    /\ ens[r] = "has_idx"
    /\ MayStep(r)
    /\ IF up
       THEN /\ loc' = [loc EXCEPT ![r].sawIdx = (coll.indexes # {})]
            /\ ens' = [ens EXCEPT ![r] =
                          IF index_absent(coll.indexes # {}) THEN "mk_idx" ELSE "load"]
            /\ UNCHANGED hist
       ELSE /\ ens' = [ens EXCEPT ![r] = "exc"]
            /\ hist' = CallOver(r)
            /\ UNCHANGED loc
    /\ UNCHANGED <<cmsg, cres, arg, ret, dim, kind, pc, pay, out, cause, trace, coll, rows, nVisible, sec,
                   up, createCollectionCalls, createIndexCalls,
                   INGEST_COUNT, CHAT_COUNT, ERROR_COUNT>>

\* _ensure_index: collection.create_index(field_name="embedding", ...)
EnsCreateIndex(r) ==
    /\ ens[r] = "mk_idx"
    /\ MayStep(r)
    /\ IF up
       THEN /\ createIndexCalls' = createIndexCalls + 1
            /\ coll' = [coll EXCEPT !.indexes = coll.indexes \cup {VectorField}]
            /\ ens' = [ens EXCEPT ![r] = "load"]
            /\ UNCHANGED hist
       ELSE /\ ens' = [ens EXCEPT ![r] = "exc"]
            /\ hist' = CallOver(r)
            /\ UNCHANGED <<coll, createIndexCalls>>
    /\ UNCHANGED <<cmsg, cres, arg, ret, dim, kind, pc, pay, loc, out, cause, trace, rows, nVisible, sec,
                   up, createCollectionCalls, INGEST_COUNT, CHAT_COUNT, ERROR_COUNT>>

\* collection.load(), then `return collection`
EnsLoad(r) ==
    /\ ens[r] = "load"
    /\ MayStep(r)
    /\ IF up
       THEN /\ coll' = [coll EXCEPT !.loaded = TRUE]
            /\ ens' = [ens EXCEPT ![r] = "ret"]
       ELSE /\ ens' = [ens EXCEPT ![r] = "exc"]
            /\ UNCHANGED coll
    /\ hist' = CallOver(r)
    /\ UNCHANGED <<cmsg, cres, arg, ret, dim, kind, pc, pay, loc, out, cause, trace, rows, nVisible, sec,
                   up, createCollectionCalls, createIndexCalls,
                   INGEST_COUNT, CHAT_COUNT, ERROR_COUNT>>

(***************************************************************************)
(* main.py: ingest, with milvus_client.py: insert_doc                      *)
(***************************************************************************)
\* POST /ingest arrives; the handler awaits wait_for(ensure_collection(), 15)
IngestStart(r, d) ==
    /\ kind[r] = "none"
    /\ LoopFree(r)
    /\ kind' = [kind EXCEPT ![r] = "ingest"]
    /\ pay' = [pay EXCEPT ![r].doc = d]
    /\ pc' = [pc EXCEPT ![r] = "i_ensure1"]
    /\ ens' = [ens EXCEPT ![r] = "has_coll"]
    /\ hist' = [hist EXCEPT ![r].after = AnyReturned]
    /\ UNCHANGED <<cmsg, cres, arg, ret, dim, loc, out, cause, trace, coll, rows, nVisible, sec, up,
                   createCollectionCalls, createIndexCalls,
                   INGEST_COUNT, CHAT_COUNT, ERROR_COUNT>>

\* ensure_collection returned: the handler calls insert_doc, which ensures the
\* collection again and then awaits embed_texts([text])
IngestEnsured(r) ==
    /\ InLoopEnsure(r)
    /\ ens[r] = "ret"
    /\ IF pc[r] = "i_ensure1"
       THEN /\ pc' = [pc EXCEPT ![r] = "i_ensure2"]
            /\ ens' = [ens EXCEPT ![r] = "has_coll"]
            /\ hist' = [hist EXCEPT ![r].after = AnyReturned]
       ELSE /\ pc' = [pc EXCEPT ![r] = "i_embed"]
            /\ ens' = [ens EXCEPT ![r] = "idle"]
            /\ UNCHANGED hist
    /\ UNCHANGED <<cmsg, cres, arg, ret, dim, kind, pay, loc, out, cause, trace, coll, rows, nVisible, sec,
                   up, createCollectionCalls, createIndexCalls,
                   INGEST_COUNT, CHAT_COUNT, ERROR_COUNT>>

\* `except Exception` of ingest: ERROR_COUNT += 1, HTTP 500
IngestFail(r) ==
    /\ pc' = [pc EXCEPT ![r] = "done"]
    /\ ens' = [ens EXCEPT ![r] = "idle"]
    /\ cause' = [cause EXCEPT ![r] = "error"]
    /\ out' = [out EXCEPT ![r] = HttpError(500, "error")]
    /\ ERROR_COUNT' = incremented(ERROR_COUNT)

\* a store request of ensure_collection raised
IngestEnsureRaised(r) ==
    /\ InLoopEnsure(r)
    /\ ens[r] = "exc"
    /\ IngestFail(r)
    /\ UNCHANGED <<cmsg, cres, arg, ret, dim, kind, pay, loc, trace, coll, rows, nVisible, sec, up, hist,
                   createCollectionCalls, createIndexCalls, INGEST_COUNT, CHAT_COUNT>>

\* the embedding service answers insert_doc with one vector
IngestEmbedded(r) ==
    /\ kind[r] = "ingest"
    /\ pc[r] = "i_embed"
    /\ LoopFree(r)
    /\ loc' = [loc EXCEPT ![r].vec = EmbedOf(DocText(pay[r].doc))]
    /\ pc' = [pc EXCEPT ![r] = "i_insert"]
    /\ UNCHANGED <<cmsg, cres, arg, ret, dim, kind, ens, pay, out, cause, trace, coll, rows, nVisible, sec,
                   up, hist, createCollectionCalls, createIndexCalls,
                   INGEST_COUNT, CHAT_COUNT, ERROR_COUNT>>

\* the embedding service fails (transport error, or no embeddings: RuntimeError)
IngestEmbedFailed(r) ==
    /\ kind[r] = "ingest"
    /\ pc[r] = "i_embed"
    /\ LoopFree(r)
    /\ IngestFail(r)
    /\ UNCHANGED <<cmsg, cres, arg, ret, dim, kind, pay, loc, trace, coll, rows, nVisible, sec, up, hist,
                   createCollectionCalls, createIndexCalls, INGEST_COUNT, CHAT_COUNT>>

\* wait_for(insert_doc(doc), timeout=20) fires while insert_doc awaits the embedding
IngestTimeout(r) ==
    /\ kind[r] = "ingest"
    /\ pc[r] = "i_embed"
    /\ LoopFree(r)
    /\ pc' = [pc EXCEPT ![r] = "done"]
    /\ cause' = [cause EXCEPT ![r] = "timeout"]
    /\ out' = [out EXCEPT ![r] = HttpError(504, "Ingest timed out.")]
    /\ ERROR_COUNT' = incremented(ERROR_COUNT)
    /\ UNCHANGED <<cmsg, cres, arg, ret, dim, kind, ens, pay, loc, trace, coll, rows, nVisible, sec, up,
                   hist, createCollectionCalls, createIndexCalls, INGEST_COUNT, CHAT_COUNT>>

\* a flush that seals nothing
flush_skipped(visible, written) == visible

\* insert_doc: collection.flush(): of `written` rows, `visible` were visible to
\* searches; the result is how many are visible afterwards
flush(visible, written) == written

\* an insert that skips a document the collection already holds
insert_unless_known(written, row) ==
    IF \E i \in 1..Len(written) : written[i].doc = row.doc
    THEN written
    ELSE Append(written, row)

\* insert_doc: collection.insert(data): one row written after the rows written so far
insert(written, row) == Append(written, row)

\* insert_doc: point_id = _make_id(); collection.insert(data).  No step reads the
\* identifier, so every row carries the same token for it.
IngestInsert(r) ==
    /\ kind[r] = "ingest"
    /\ pc[r] = "i_insert"
    /\ LoopFree(r)
    /\ IF up /\ accepts(dim.model)
       THEN /\ rows' = insert(rows, [id |-> "uuid", doc |-> pay[r].doc,
                                         vec |-> loc[r].vec, by |-> r])
            /\ loc' = [loc EXCEPT ![r].rowIdx = Len(rows')]
            /\ pc' = [pc EXCEPT ![r] = "i_flush"]
            /\ UNCHANGED <<ens, out, cause, ERROR_COUNT>>
       ELSE /\ IngestFail(r)
            /\ UNCHANGED <<rows, loc>>
    /\ UNCHANGED <<cmsg, cres, arg, ret, dim, kind, pay, trace, coll, nVisible, sec, up, hist,
                   createCollectionCalls, createIndexCalls, INGEST_COUNT, CHAT_COUNT>>

\* insert_doc: collection.flush(); return; ingest: INGEST_COUNT += 1, status ok
IngestFlush(r) ==
    /\ kind[r] = "ingest"
    /\ pc[r] = "i_flush"
    /\ IF up
       THEN /\ nVisible' = flush(nVisible, Len(rows))
            /\ INGEST_COUNT' = incremented(INGEST_COUNT)
            /\ pc' = [pc EXCEPT ![r] = "done"]
            /\ out' = [out EXCEPT ![r] = [NoOut EXCEPT !.status = 200, !.detail = "ok"]]
            /\ UNCHANGED <<ens, cause, ERROR_COUNT>>
       ELSE /\ IngestFail(r)
            /\ UNCHANGED <<nVisible, INGEST_COUNT>>
    /\ UNCHANGED <<cmsg, cres, arg, ret, dim, kind, pay, loc, trace, coll, rows, sec, up, hist,
                   createCollectionCalls, createIndexCalls, CHAT_COUNT>>


(***************************************************************************)
(* rag.py: retrieve_sources._search, build_prompt                          *)
(***************************************************************************)
\* cosine similarity of two embedding vectors, as the store scores a hit
Score(q, v) == IF q = v THEN 1 ELSE 0

Min(a, b) == IF a < b THEN a ELSE b

\* collection.search(data=[qvec], limit=k): the visible rows, best score first
Search(qvec, k) ==
    LET cands == SubSeq(rows, 1, nVisible)
        Near(row) == Score(qvec, row.vec) = 1
        Far(row)  == Score(qvec, row.vec) = 0
        ranked == SelectSeq(cands, Near) \o SelectSeq(cands, Far)
    IN SubSeq(ranked, 1, Min(k, Len(ranked)))

\* the loop body of _search: one hit normalised into a source record
Normalise(qvec, row) ==
    [title |-> row.doc, id |-> row.id, distance |-> Score(qvec, row.vec), by |-> row.by]

\* retrieve_sources: `k = k or RAG_TOP_K`, the optional k as a set of at most one
\* integer ({} is None)
k_or_default(k) == IF k = {} \/ k = {0} THEN RAG_TOP_K ELSE CHOOSE n \in k : TRUE

\* retrieve_sources(query, k) over a store that answers
retrieve_sources(query, k) ==
    LET qvec  == EmbedOf(query)
        found == Search(qvec, k_or_default(k))
    IN  [i \in 1..Len(found) |-> Normalise(qvec, found[i])]

\* _detail_instructions(level): the style block, named by its first line
detail_instructions(level) ==
    IF level = "basic" THEN "Write for a beginner."
    ELSE IF level = "advanced" THEN "Write for a technical audience."
    ELSE "Write at an intermediate level."

\* build_prompt: `level = detail_level or classify_detail_level(user_message)`
prompt_level(user_message, detail_level) ==
    IF detail_level = "None" THEN classify_detail_level(user_message) ELSE detail_level

\* a prompt that leaves the sources out for beginners
build_prompt_tiered(user_message, sources, detail_level) ==
    LET level == prompt_level(user_message, detail_level) IN
    [ style    |-> detail_instructions(level),
      level    |-> level,
      context  |-> IF sources = <<>> \/ level = "basic"
                   THEN << [n |-> 0, title |-> "(no sources retrieved)"] >>
                   ELSE [i \in 1..Len(sources) |-> [n |-> i, title |-> sources[i].title]],
      question |-> user_message ]

\* build_prompt: the style block, the level line, the numbered sources, the question
build_prompt(user_message, sources, detail_level) ==
    LET level == prompt_level(user_message, detail_level) IN
    [ style    |-> detail_instructions(level),
      level    |-> level,
      context  |-> IF sources = <<>>
                   THEN << [n |-> 0, title |-> "(no sources retrieved)"] >>
                   ELSE [i \in 1..Len(sources) |-> [n |-> i, title |-> sources[i].title]],
      question |-> user_message ]

\* build_prompt: the blocks of the returned string, in the order the f-string lays
\* them out
prompt_blocks(p) ==
    << <<"rules", "You are a retrieval-augmented assistant.">>,
       <<"style", p.style>>,
       <<"level", p.level>>,
       <<"sources", p.context>>,
       <<"question", p.question>>,
       <<"answer", "Answer:">> >>

(***************************************************************************)
(* main.py: _chat_impl under chat and debug_chat                           *)
(***************************************************************************)
IsChat(r) == kind[r] \in {"chat", "debug_chat"}

Awaiting == {"c_embed", "c_search", "c_prompt", "c_gen"}

\* the stage of _chat_impl that the handler is awaiting at pc value p
StageAt(p) ==
    IF p \in {"c_embed", "c_search"} THEN "retrieve"
    ELSE IF p = "c_prompt" THEN "prompt"
    ELSE "generate"

\* POST /chat or /debug/chat arrives: _chat_impl starts retrieve_sources(message),
\* which awaits embed_texts([query])
ChatStart(r, k, m, given) ==
    /\ kind[r] = "none"
    /\ LoopFree(r)
    /\ kind' = [kind EXCEPT ![r] = k]
    /\ pay' = [pay EXCEPT ![r] = [message |-> m, given |-> given,
                                  detail_level |-> ChatIn_detail_level(given), doc |-> "none"]]
    /\ pc' = [pc EXCEPT ![r] = "c_embed"]
    /\ trace' = [trace EXCEPT ![r] = <<"retrieve+">>]
    /\ hist' = [hist EXCEPT ![r].acked = AckedRows]
    /\ UNCHANGED <<cmsg, cres, arg, ret, dim, ens, loc, out, cause, coll, rows, nVisible, sec, up,
                   createCollectionCalls, createIndexCalls,
                   INGEST_COUNT, CHAT_COUNT, ERROR_COUNT>>

\* the embedding service answers: `_search` is handed to a worker thread
ChatEmbedded(r) ==
    /\ IsChat(r)
    /\ pc[r] = "c_embed"
    /\ LoopFree(r)
    /\ loc' = [loc EXCEPT ![r].vec = EmbedOf(pay[r].message)]
    /\ pc' = [pc EXCEPT ![r] = "c_search"]
    /\ ens' = [ens EXCEPT ![r] = "has_coll"]
    /\ hist' = [hist EXCEPT ![r].after = AnyReturned]
    /\ UNCHANGED <<cmsg, cres, arg, ret, dim, kind, pay, out, cause, trace, coll, rows, nVisible, sec, up,
                   createCollectionCalls, createIndexCalls,
                   INGEST_COUNT, CHAT_COUNT, ERROR_COUNT>>

\* _search in its worker thread, after ensure_collection returned:
\* collection.search, then the hits normalised
ThreadSearch(r) ==
    /\ InThread(r)
    /\ ens[r] = "ret"
    /\ IF up /\ coll.loaded /\ accepts(dim.model)
       THEN /\ loc' = [loc EXCEPT ![r].hits =
                          LET found == Search(loc[r].vec, RAG_TOP_K) IN
                          [i \in 1..Len(found) |-> Normalise(loc[r].vec, found[i])]]
            /\ hist' = [hist EXCEPT ![r].searched = TRUE, ![r].seen = nVisible]
            /\ ens' = [ens EXCEPT ![r] = "hits"]
       ELSE /\ ens' = [ens EXCEPT ![r] = "exc"]
            /\ UNCHANGED <<loc, hist>>
    /\ UNCHANGED <<cmsg, cres, arg, ret, dim, kind, pc, pay, out, cause, trace, coll, rows, nVisible, sec,
                   up, createCollectionCalls, createIndexCalls,
                   INGEST_COUNT, CHAT_COUNT, ERROR_COUNT>>

\* a retrieve stage that loses what the search found
delivered_none(r) == <<>>

\* the sources that the awaiting retrieve stage of request r receives
delivered_hits(r) == loc[r].hits

\* retrieve_sources returns to _chat_impl, which hands build_prompt to a thread
ChatRetrieved(r) ==
    /\ IsChat(r)
    /\ pc[r] = "c_search"
    /\ ens[r] = "hits"
    /\ LoopFree(r)
    /\ loc' = [loc EXCEPT ![r].sources = delivered_hits(r)]
    /\ trace' = [trace EXCEPT ![r] = @ \o <<"retrieve-", "prompt+">>]
    /\ pc' = [pc EXCEPT ![r] = "c_prompt"]
    /\ ens' = [ens EXCEPT ![r] = "idle"]
    /\ UNCHANGED <<cmsg, cres, arg, ret, dim, kind, pay, out, cause, coll, rows, nVisible, sec, up, hist,
                   createCollectionCalls, createIndexCalls,
                   INGEST_COUNT, CHAT_COUNT, ERROR_COUNT>>

\* build_prompt returns from its thread; _chat_impl awaits ollama_generate(prompt)
ChatPromptBuilt(r) ==
    /\ IsChat(r)
    /\ pc[r] = "c_prompt"
    /\ LoopFree(r)
    /\ loc' = [loc EXCEPT ![r].prompt =
                  build_prompt(pay[r].message, loc[r].sources, pay[r].detail_level)]
    /\ trace' = [trace EXCEPT ![r] = @ \o <<"prompt-", "generate+">>]
    /\ pc' = [pc EXCEPT ![r] = "c_gen"]
    /\ UNCHANGED <<cmsg, cres, arg, ret, dim, kind, ens, pay, out, cause, coll, rows, nVisible, sec, up,
                   hist, createCollectionCalls, createIndexCalls,
                   INGEST_COUNT, CHAT_COUNT, ERROR_COUNT>>

\* the generation service answers: chat counts the request and returns answer and sources
ChatGenerated(r) ==
    /\ IsChat(r)
    /\ pc[r] = "c_gen"
    /\ LoopFree(r)
    /\ trace' = [trace EXCEPT ![r] = Append(@, "generate-")]
    /\ pc' = [pc EXCEPT ![r] = "done"]
    /\ out' = [out EXCEPT ![r] = [NoOut EXCEPT !.status = 200, !.detail = "ok",
                                               !.hasAnswer = TRUE,
                                               !.answerTo = loc[r].prompt,
                                               !.sources = loc[r].sources]]
    /\ CHAT_COUNT' = IF kind[r] = "chat" THEN incremented(CHAT_COUNT) ELSE CHAT_COUNT
    /\ UNCHANGED <<cmsg, cres, arg, ret, dim, kind, ens, pay, loc, cause, coll, rows, nVisible, sec, up,
                   hist, createCollectionCalls, createIndexCalls, INGEST_COUNT, ERROR_COUNT>>

\* `except Exception` of chat / debug_chat: HTTP 500 (chat also counts the error)
ChatFail(r) ==
    /\ pc' = [pc EXCEPT ![r] = "done"]
    /\ cause' = [cause EXCEPT ![r] = "error"]
    /\ out' = [out EXCEPT ![r] = HttpError(500, "error")]
    /\ ERROR_COUNT' = IF kind[r] = "chat" THEN incremented(ERROR_COUNT) ELSE ERROR_COUNT
    /\ UNCHANGED <<cmsg, cres, arg, ret, dim, kind, ens, pay, loc, trace, coll, rows, nVisible, sec, up,
                   hist, createCollectionCalls, createIndexCalls, INGEST_COUNT, CHAT_COUNT>>

\* the embedding or the generation service fails while the handler awaits it
ChatServiceFailed(r) ==
    /\ IsChat(r)
    /\ pc[r] \in {"c_embed", "c_gen"}
    /\ LoopFree(r)
    /\ ChatFail(r)

\* the worker thread of _search raised: the exception reaches the awaiting handler
ChatSearchRaised(r) ==
    /\ IsChat(r)
    /\ pc[r] = "c_search"
    /\ ens[r] = "exc"
    /\ LoopFree(r)
    /\ ChatFail(r)

\* `except asyncio.TimeoutError` of chat / debug_chat: HTTP 504
ChatTimedOut(r, why) ==
    /\ pc' = [pc EXCEPT ![r] = "done"]
    /\ cause' = [cause EXCEPT ![r] = why]
    /\ out' = [out EXCEPT ![r] = HttpError(504, ChatTimeoutDetail(kind[r]))]
    /\ ERROR_COUNT' = IF kind[r] = "chat" THEN incremented(ERROR_COUNT) ELSE ERROR_COUNT
    /\ UNCHANGED <<cmsg, cres, arg, ret, dim, kind, ens, pay, loc, trace, coll, rows, nVisible, sec, up,
                   hist, createCollectionCalls, createIndexCalls, INGEST_COUNT, CHAT_COUNT>>

\* the wait_for of the stage in progress fires: asyncio.TimeoutError leaves _chat_impl
StageTimeout(r) ==
    /\ IsChat(r)
    /\ pc[r] \in Awaiting
    /\ LoopFree(r)
    /\ ChatTimedOut(r, StageAt(pc[r]))

\* the wait_for around _chat_impl fires (CHAT_TOTAL_TIMEOUT_S)
TotalTimeout(r) ==
    /\ IsChat(r)
    /\ pc[r] \in Awaiting
    /\ LoopFree(r)
    /\ ChatTimedOut(r, "total")


(***************************************************************************)
(* Health: main.py health with milvus_client.py ready, and                 *)
(* security_memory/store.py memory_health                                  *)
(***************************************************************************)
\* a readiness probe that never asks the server
ready_unchecked(reachable) == TRUE

\* ready(): _connect() and utility.get_server_version() inside try / except Exception
ready(reachable) == reachable

\* GET /health
Health(r) ==
    /\ kind[r] = "none"
    /\ LoopFree(r)
    /\ kind' = [kind EXCEPT ![r] = "health"]
    /\ pc' = [pc EXCEPT ![r] = "done"]
    /\ out' = [out EXCEPT ![r] = [NoOut EXCEPT !.status = 200, !.detail = "ok",
                                   !.ok = IF ready(up) THEN "true" ELSE "false",
                                   !.points = "absent"]]
    /\ cause' = [cause EXCEPT ![r] =
                    IF ~up THEN "unreachable"
                    ELSE IF ~coll.exists THEN "no collection"
                    ELSE "none"]
    /\ UNCHANGED <<cmsg, cres, arg, ret, dim, ens, pay, loc, trace, coll, rows, nVisible, sec, up,
                   hist, createCollectionCalls, createIndexCalls,
                   INGEST_COUNT, CHAT_COUNT, ERROR_COUNT>>

\* what col.get_collection_stats() may do: give a row count, give one that int()
\* rejects, or raise
StatsAnswers == {"count", "unparsable", "raise"}

\* memory_health: does the try block run to its end (no store call raises)
memory_try_ok(reachable, c, loadRaises, stats) ==
    /\ reachable
    /\ c.exists => (~loadRaises /\ stats # "raise")

\* memory_health: ok and points_count of the MemoryHealthOut it returns
memory_health(reachable, c, loadRaises, stats) ==
    IF memory_try_ok(reachable, c, loadRaises, stats)
    THEN [ok |-> "true",
          points |-> IF c.exists /\ stats = "count" THEN "count" ELSE "absent"]
    ELSE [ok |-> "false", points |-> "absent"]

\* GET /memory/health.  col.load() of a collection without index may raise.
MemoryHealth(r, loadRaises, stats) ==
    /\ kind[r] = "none"
    /\ LoopFree(r)
    /\ loadRaises => (sec.exists /\ sec.indexes = {})
    /\ (stats # "count") => (sec.exists /\ ~loadRaises)
    /\ kind' = [kind EXCEPT ![r] = "memory_health"]
    /\ pc' = [pc EXCEPT ![r] = "done"]
    /\ sec' = IF up /\ sec.exists /\ ~loadRaises THEN [sec EXCEPT !.loaded = TRUE] ELSE sec
    /\ out' = [out EXCEPT ![r] =
                  LET h == memory_health(up, sec, loadRaises, stats) IN
                  [NoOut EXCEPT !.status = 200, !.detail = "ok",
                                !.ok = h.ok, !.points = h.points]]
    /\ cause' = [cause EXCEPT ![r] =
                    IF ~up THEN "unreachable"
                    ELSE IF ~sec.exists THEN "no collection"
                    ELSE IF loadRaises THEN "load raised"
                    ELSE IF stats = "raise" THEN "stats raised"
                    ELSE "none"]
    /\ UNCHANGED <<cmsg, cres, arg, ret, dim, ens, pay, loc, trace, coll, rows, nVisible, up, hist,
                   createCollectionCalls, createIndexCalls,
                   INGEST_COUNT, CHAT_COUNT, ERROR_COUNT>>

(***************************************************************************)
(* The store's own behaviour                                               *)
(***************************************************************************)
\* the store stops answering (connection refused, server unreachable)
StoreGoesDown ==
    /\ up
    /\ up' = FALSE
    /\ UNCHANGED <<cmsg, cres, arg, ret, dim, kind, pc, ens, pay, loc, out, cause, trace, coll, rows,
                   nVisible, sec, hist, createCollectionCalls, createIndexCalls,
                   INGEST_COUNT, CHAT_COUNT, ERROR_COUNT>>

\* the store answers again
StoreComesUp ==
    /\ ~up
    /\ up' = TRUE
    /\ UNCHANGED <<cmsg, cres, arg, ret, dim, kind, pc, ens, pay, loc, out, cause, trace, coll, rows,
                   nVisible, sec, hist, createCollectionCalls, createIndexCalls,
                   INGEST_COUNT, CHAT_COUNT, ERROR_COUNT>>

\* the store seals a segment on its own: written rows become visible
StoreFlushes ==
    /\ nVisible < Len(rows)
    /\ nVisible' = Len(rows)
    /\ UNCHANGED <<cmsg, cres, arg, ret, dim, kind, pc, ens, pay, loc, out, cause, trace, coll, rows,
                   sec, up, hist, createCollectionCalls, createIndexCalls,
                   INGEST_COUNT, CHAT_COUNT, ERROR_COUNT>>

(***************************************************************************)
(* Specifications                                                          *)
(***************************************************************************)
Absent == [exists |-> FALSE, indexes |-> {}, loaded |-> FALSE]

Unindexed == [exists |-> TRUE, indexes |-> {}, loaded |-> FALSE]

Indexed == [exists |-> TRUE, indexes |-> {VectorField}, loaded |-> FALSE]

\* the collection states a process may find at start-up
CollStates == {Absent, Unindexed, Indexed}

\* rows ingested and flushed by an earlier run of the service (by |-> NoReq)
OldRows == << [id |-> "uuid", doc |-> "docA", vec |-> "v1", by |-> NoReq],
              [id |-> "uuid", doc |-> "docB", vec |-> "v2", by |-> NoReq] >>

\* no request has arrived, the store answers, nothing was counted
InitHandlers ==
    /\ kind = [r \in Reqs |-> "none"]
    /\ pc = [r \in Reqs |-> "idle"]
    /\ ens = [r \in Reqs |-> "idle"]
    /\ pay = [r \in Reqs |-> NoPay]
    /\ loc = [r \in Reqs |-> NoLoc]
    /\ out = [r \in Reqs |-> NoOut]
    /\ cause = [r \in Reqs |-> "none"]
    /\ trace = [r \in Reqs |-> <<>>]
    /\ hist = [r \in Reqs |-> NoHist]
    /\ up = TRUE
    /\ createCollectionCalls = 0
    /\ createIndexCalls = 0
    /\ INGEST_COUNT = 0
    /\ CHAT_COUNT = 0
    /\ ERROR_COUNT = 0

InitRequests ==
    /\ arg = <<>>
    /\ ret = <<>>
    /\ dim = [schema |-> EMBEDDINGS_DIM, model |-> EMBEDDINGS_DIM, coll |-> EMBEDDINGS_DIM]
    /\ InitHandlers

EnsureStep(r) ==
    \/ EnsHasCollection(r)
    \/ EnsOpen(r)
    \/ EnsHasIndex(r)
    \/ EnsCreateIndex(r)
    \/ EnsLoad(r)

IngestStep(r) ==
    \/ \E d \in Docs : IngestStart(r, d)
    \/ IngestEnsured(r)
    \/ IngestEnsureRaised(r)
    \/ IngestEmbedded(r)
    \/ IngestEmbedFailed(r)
    \/ IngestTimeout(r)
    \/ IngestInsert(r)
    \/ IngestFlush(r)

\* the steps of a chat or debug_chat request after its arrival
ChatRun(r) ==
    \/ ChatEmbedded(r)
    \/ ThreadSearch(r)
    \/ ChatRetrieved(r)
    \/ ChatPromptBuilt(r)
    \/ ChatGenerated(r)
    \/ ChatServiceFailed(r)
    \/ ChatSearchRaised(r)
    \/ StageTimeout(r)
    \/ TotalTimeout(r)

StoreStep == StoreGoesDown \/ StoreComesUp \/ StoreFlushes

(* The chat orchestrator: chat requests for one question, over a store that
   holds a flushed corpus and may fail and recover. *)
InitChat ==
    /\ cmsg = <<>>
    /\ cres = "none"
    /\ InitRequests
    /\ sec = Absent
    /\ coll = Indexed
    /\ rows = OldRows
    /\ nVisible = Len(OldRows)

NextChat ==
    \/ \E r \in Reqs : ChatStart(r, "chat", <<"h","i">>, "None")
    \/ \E r \in Reqs : ChatRun(r)
    \/ \E r \in Reqs : EnsHasCollection(r)
    \/ \E r \in Reqs : EnsOpen(r)
    \/ \E r \in Reqs : EnsHasIndex(r)
    \/ \E r \in Reqs : EnsLoad(r)
    \/ StoreGoesDown
    \/ StoreComesUp

SpecChat == InitChat /\ [][NextChat]_vars

(* The detail level of a chat request: every question and every way of giving
   or not giving detail_level, over a store that answers. *)
NextDetail ==
    \/ \E r \in Reqs : \E m \in ChatMsgs, g \in DetailInputs : ChatStart(r, "chat", m, g)
    \/ \E r \in Reqs : ChatEmbedded(r)
    \/ \E r \in Reqs : EnsHasCollection(r)
    \/ \E r \in Reqs : EnsOpen(r)
    \/ \E r \in Reqs : EnsHasIndex(r)
    \/ \E r \in Reqs : EnsLoad(r)
    \/ \E r \in Reqs : ThreadSearch(r)
    \/ \E r \in Reqs : ChatRetrieved(r)
    \/ \E r \in Reqs : ChatPromptBuilt(r)
    \/ \E r \in Reqs : ChatGenerated(r)

SpecDetail == InitChat /\ [][NextDetail]_vars

(* The primary corpus: ingest of a document (again and again the same one),
   retrieval by a chat request, and health, from every start-up state of the
   collection, over a store that answers. *)
InitStore ==
    /\ cmsg = <<>>
    /\ cres = "none"
    /\ InitRequests
    /\ sec = Absent
    /\ coll \in CollStates
    /\ rows = <<>>
    /\ nVisible = 0

NextStore ==
    \/ \E r \in Reqs : IngestStart(r, "docA")
    \/ \E r \in Reqs : IngestEnsured(r)
    \/ \E r \in Reqs : IngestEmbedded(r)
    \/ \E r \in Reqs : IngestEmbedFailed(r)
    \/ \E r \in Reqs : IngestTimeout(r)
    \/ \E r \in Reqs : IngestInsert(r)
    \/ \E r \in Reqs : IngestFlush(r)
    \/ \E r \in Reqs : ChatStart(r, "chat", <<"h","i">>, "None")
    \/ \E r \in Reqs : ChatEmbedded(r)
    \/ \E r \in Reqs : ThreadSearch(r)
    \/ \E r \in Reqs : ChatRetrieved(r)
    \/ \E r \in Reqs : ChatPromptBuilt(r)
    \/ \E r \in Reqs : ChatGenerated(r)
    \/ \E r \in Reqs : ChatServiceFailed(r)
    \/ \E r \in Reqs : StageTimeout(r)
    \/ \E r \in Reqs : EnsureStep(r)
    \/ \E r \in Reqs : Health(r)
    \/ StoreFlushes

SpecStore == InitStore /\ [][NextStore]_vars

(* Ingest and health over a store that fails and recovers. *)
NextOutage ==
    \/ \E r \in Reqs : IngestStep(r)
    \/ \E r \in Reqs : EnsureStep(r)
    \/ \E r \in Reqs : Health(r)
    \/ StoreStep

SpecOutage == InitStore /\ [][NextOutage]_vars

(* Health checks of both corpora, against a store that may fail. *)
InitHealth ==
    /\ cmsg = <<>>
    /\ cres = "none"
    /\ InitRequests
    /\ sec \in CollStates
    /\ coll \in CollStates
    /\ rows = <<>>
    /\ nVisible = 0

NextHealth ==
    \/ \E r \in Reqs : Health(r)
    \/ \E r \in Reqs : \E l \in BOOLEAN, st \in StatsAnswers : MemoryHealth(r, l, st)
    \/ StoreGoesDown
    \/ StoreComesUp

SpecHealth == InitHealth /\ [][NextHealth]_vars

\* the classifier applied to one input
ClassifyCall ==
    /\ cres = "none"
    /\ cres' = classify_detail_level(cmsg)
    /\ UNCHANGED <<cmsg, arg, ret, sysvars>>

InitClassify ==
    /\ cmsg \in ClassifyInputs
    /\ cres = "none"
    /\ InitRequests
    /\ coll = Absent
    /\ sec = Absent
    /\ rows = <<>>
    /\ nVisible = 0

SpecClassify == InitClassify /\ [][ClassifyCall]_vars

\* what the function applied on its own returned
Result == ret[1]

(***************************************************************************)
(* security_memory/store.py: _ensure_collection and query_memory           *)
(***************************************************************************)
\* _ensure_collection, which runs on the event loop from its first line to its
\* return or raise: what it leaves of collection c and whether it returned.
\* The index is created only in the branch that creates the collection.
security_ensure_collection(c, reachable, createIndexRaises, loadRaises) ==
    IF ~reachable THEN [c |-> c, returned |-> FALSE]
    ELSE IF ~c.exists
    THEN IF createIndexRaises
         THEN [c |-> Unindexed, returned |-> FALSE]
         ELSE [c |-> [Indexed EXCEPT !.loaded = TRUE], returned |-> TRUE]
    ELSE IF loadRaises
    THEN [c |-> c, returned |-> FALSE]
    ELSE [c |-> [c EXCEPT !.loaded = TRUE], returned |-> TRUE]

\* POST /memory/query arrives: query_memory awaits _ensure_collection(), then
\* _embed(payload.query).  The store may fail between Collection(...) and
\* create_index; collection.load() of a collection without index may raise.
MemQueryStart(r, createIndexRaises, loadRaises) ==
    /\ kind[r] = "none"
    /\ LoopFree(r)
    /\ createIndexRaises => (up /\ ~sec.exists)
    /\ loadRaises => (up /\ sec.exists /\ sec.indexes = {})
    /\ LET e == security_ensure_collection(sec, up, createIndexRaises, loadRaises) IN
       /\ sec' = e.c
       /\ kind' = [kind EXCEPT ![r] = "memory_query"]
       /\ pc' = [pc EXCEPT ![r] = IF e.returned THEN "m_embed" ELSE "done"]
       /\ out' = [out EXCEPT ![r] = IF e.returned THEN NoOut ELSE HttpError(500, "error")]
       /\ cause' = [cause EXCEPT ![r] = IF e.returned THEN "none" ELSE "error"]
    /\ UNCHANGED <<cmsg, cres, arg, ret, dim, ens, pay, loc, trace, coll, rows, nVisible, up, hist,
                   createCollectionCalls, createIndexCalls,
                   INGEST_COUNT, CHAT_COUNT, ERROR_COUNT>>

\* the embedding service answers: `_search` is handed to a worker thread
MemQueryEmbedded(r) ==
    /\ kind[r] = "memory_query"
    /\ pc[r] = "m_embed"
    /\ LoopFree(r)
    /\ loc' = [loc EXCEPT ![r].vec = "v1"]
    /\ pc' = [pc EXCEPT ![r] = "m_search"]
    /\ UNCHANGED <<cmsg, cres, arg, ret, dim, kind, ens, pay, out, cause, trace, coll, rows, nVisible,
                   sec, up, hist, createCollectionCalls, createIndexCalls,
                   INGEST_COUNT, CHAT_COUNT, ERROR_COUNT>>

\* collection.search in the worker thread, and the MemoryQueryOut returned
MemQuerySearched(r) ==
    /\ kind[r] = "memory_query"
    /\ pc[r] = "m_search"
    /\ pc' = [pc EXCEPT ![r] = "done"]
    /\ out' = [out EXCEPT ![r] = IF up THEN [NoOut EXCEPT !.status = 200, !.detail = "ok"]
                                  ELSE HttpError(500, "error")]
    /\ cause' = [cause EXCEPT ![r] = IF up THEN "none" ELSE "error"]
    /\ UNCHANGED <<cmsg, cres, arg, ret, dim, kind, ens, pay, loc, trace, coll, rows, nVisible,
                   sec, up, hist, createCollectionCalls, createIndexCalls,
                   INGEST_COUNT, CHAT_COUNT, ERROR_COUNT>>

(* Queries of the security-memory corpus from every start-up state of its
   collection, against a store that may fail. *)
InitMemory ==
    /\ cmsg = <<>>
    /\ cres = "none"
    /\ InitRequests
    /\ sec \in CollStates
    /\ coll = Absent
    /\ rows = <<>>
    /\ nVisible = 0

NextMemory ==
    \/ \E r \in Reqs : \E fault, loadRaises \in BOOLEAN : MemQueryStart(r, fault, loadRaises)
    \/ \E r \in Reqs : MemQueryEmbedded(r)
    \/ \E r \in Reqs : MemQuerySearched(r)
    \/ StoreGoesDown
    \/ StoreComesUp

SpecMemory == InitMemory /\ [][NextMemory]_vars

(* Ingest with an embedding model of any width, from a store without the
   collection. *)
InitDim ==
    /\ cmsg = <<>>
    /\ cres = "none"
    /\ arg = <<>>
    /\ ret = <<>>
    /\ dim \in [schema : {EMBEDDINGS_DIM}, model : Widths, coll : {EMBEDDINGS_DIM}]
    /\ InitHandlers
    /\ sec = Absent
    /\ coll = Absent
    /\ rows = <<>>
    /\ nVisible = 0

NextDim ==
    \/ \E r \in Reqs : IngestStart(r, "docA")
    \/ \E r \in Reqs : IngestEnsured(r)
    \/ \E r \in Reqs : IngestEmbedded(r)
    \/ \E r \in Reqs : IngestInsert(r)
    \/ \E r \in Reqs : IngestFlush(r)
    \/ \E r \in Reqs : EnsureStep(r)
    \/ \E r \in Reqs : ChatStart(r, "chat", <<"h","i">>, "None")
    \/ \E r \in Reqs : ChatEmbedded(r)
    \/ \E r \in Reqs : ThreadSearch(r)
    \/ \E r \in Reqs : ChatSearchRaised(r)
    \/ \E r \in Reqs : ChatRetrieved(r)

SpecDim == InitDim /\ [][NextDim]_vars

(***************************************************************************)
(* embeddings.py: embed_texts applied on its own, against every answer of  *)
(* the embedding service                                                   *)
(***************************************************************************)
\* embed_texts(texts) when the service does `response`: the exception raised, or
\* the list returned (a vector is modelled by its width)
embed_texts(texts, response) ==
    IF response.kind # "answer"
    THEN [outcome |-> "httpx.HTTPError", vectors |-> <<>>]
    ELSE IF response.embeddings = <<>>
    THEN [outcome |-> "RuntimeError", vectors |-> <<>>]
    ELSE [outcome |-> "ok", vectors |-> response.embeddings]

MaxTexts == 3

\* what the service may do with POST /api/embed: refuse the connection, answer
\* with an error status, or answer with a list of vectors (none when the key is
\* missing or the list is empty)
ServiceResponses ==
    { [kind |-> k, embeddings |-> <<>>] : k \in {"connect error", "error status"} }
    \cup { [kind |-> "answer", embeddings |-> e] :
              e \in UNION { [1..m -> Widths] : m \in 0..MaxTexts } }

EmbedCall ==
    /\ ret = <<>>
    /\ ret' = << embed_texts(arg.texts, arg.response) >>
    /\ UNCHANGED <<cmsg, cres, arg, sysvars>>

InitEmbed ==
    /\ cmsg = <<>>
    /\ cres = "none"
    /\ arg \in [texts : { [i \in 1..n |-> <<"h","i">>] : n \in 1..MaxTexts },
                response : ServiceResponses]
    /\ ret = <<>>
    /\ dim = [schema |-> EMBEDDINGS_DIM, model |-> EMBEDDINGS_DIM, coll |-> EMBEDDINGS_DIM]
    /\ InitHandlers
    /\ coll = Absent
    /\ sec = Absent
    /\ rows = <<>>
    /\ nVisible = 0

SpecEmbed == InitEmbed /\ [][EmbedCall]_vars

(***************************************************************************)
(* security_memory/store.py: the tag filter of query_memory                *)
(***************************************************************************)
Quote == "\""

RECURSIVE JoinQuoted(_, _)
\* json.dumps of the tags from the i-th on: "t", "u", ...
JoinQuoted(tags, i) ==
    IF i > Len(tags) THEN <<>>
    ELSE <<Quote>> \o tags[i] \o <<Quote>>
         \o (IF i < Len(tags) THEN <<",", " ">> ELSE <<>>)
         \o JoinQuoted(tags, i + 1)

\* json.dumps(tags): the JSON text stored in the tags column
json_dumps(tags) == <<"[">> \o JoinQuoted(tags, 1) \o <<"]">>

\* a clause that looks for the bare tag
like_bare(tag) == tag

\* the text between the two % of the clause `tags like '%"{tag}"%'`
like_pattern(tag) == <<Quote>> \o tag \o <<Quote>>

\* query_memory: does the expression built from payload.tags admit a row with the
\* stored tags text (no expression when payload.tags is None or empty)
tag_filter_admits(stored, requested) ==
    \/ requested = <<>>
    \/ \E i \in 1..Len(requested) : Contains(stored, like_pattern(requested[i]))

MaxTags == 2

TagWords == { <<"g","o">>, <<"m","o","n","g","o">>, <<"d","o","c","k","e","r">> }

\* the tag lists of up to n tags
TagLists(n) == UNION { [1..m -> TagWords] : m \in 0..n }

TagFilterCall ==
    /\ ret = <<>>
    /\ ret' = << tag_filter_admits(json_dumps(arg.stored), arg.requested) >>
    /\ UNCHANGED <<cmsg, cres, arg, sysvars>>

InitTags ==
    /\ cmsg = <<>>
    /\ cres = "none"
    /\ arg \in [stored : TagLists(MaxTags), requested : TagLists(MaxTags)]
    /\ ret = <<>>
    /\ dim = [schema |-> EMBEDDINGS_DIM, model |-> EMBEDDINGS_DIM, coll |-> EMBEDDINGS_DIM]
    /\ InitHandlers
    /\ coll = Absent
    /\ sec = Absent
    /\ rows = <<>>
    /\ nVisible = 0

SpecTags == InitTags /\ [][TagFilterCall]_vars

(***************************************************************************)
(* The tags column: written by insert_doc, read back by the two _search    *)
(***************************************************************************)
\* milvus_client.py: the tags column holds json.dumps(tags)[:2048]
TagsColumnLimit == 2048

\* insert_doc: json.dumps(doc.get("tags") or [])[:2048]
insert_doc_tags(tags) ==
    LET text == json_dumps(tags) IN
    SubSeq(text, 1, Min(Len(text), TagsColumnLimit))

\* what json.loads gives: a list of strings, another JSON value, or the
\* JSONDecodeError it raises
JsonList(items) == [kind |-> "list", items |-> items]

JsonOther(type) == [kind |-> type, items |-> <<>>]

JSONDecodeError == JsonOther("JSONDecodeError")

RECURSIVE ParseItems(_, _)
\* the elements of a JSON array of strings, from position i of s to the closing
\* bracket that must end s
ParseItems(s, i) ==
    IF i > Len(s) \/ s[i] # Quote THEN JSONDecodeError
    ELSE LET closes == {j \in (i + 1)..Len(s) : s[j] = Quote} IN
         IF closes = {} THEN JSONDecodeError
         ELSE LET j == CHOOSE c \in closes : \A x \in closes : c <= x
                  item == SubSeq(s, i + 1, j - 1)
              IN  IF j + 1 = Len(s) /\ s[j + 1] = "]" THEN JsonList(<<item>>)
                  ELSE IF j + 2 <= Len(s) /\ s[j + 1] = ","
                  THEN LET rest == ParseItems(s, IF s[j + 2] = " " THEN j + 3 ELSE j + 2) IN
                       IF rest.kind = "list" THEN JsonList(<<item>> \o rest.items)
                       ELSE JSONDecodeError
                  ELSE JSONDecodeError

\* json.loads(s) for the JSON texts without nesting, escapes or fractions: an
\* array of strings, null, a number of digits, a string
json_loads(s) ==
    IF s = <<"[", "]">> THEN JsonList(<<>>)
    ELSE IF Len(s) >= 2 /\ s[1] = "[" THEN ParseItems(s, 2)
    ELSE IF s = <<"n","u","l","l">> THEN JsonOther("null")
    ELSE IF Len(s) >= 1 /\ \A i \in 1..Len(s) : s[i] \in DigitChars THEN JsonOther("int")
    ELSE IF /\ Len(s) >= 2
            /\ s[1] = Quote
            /\ {j \in 2..Len(s) : s[j] = Quote} = {Len(s)}
         THEN JsonOther("str")
    ELSE JSONDecodeError

\* a parse error that is handed on instead of caught
except_missing(parsed) == parsed

\* `except (json.JSONDecodeError, TypeError): tags = []`
except_empty(parsed) == IF parsed = JSONDecodeError THEN JsonList(<<>>) ELSE parsed

\* `raw_tags = entity.get("tags") or "[]"`, then json.loads in try / except.
\* The column value is a set of at most one text ({} is None).
normalise_tags(column) ==
    LET raw == IF column = {} \/ column = {<<>>} THEN <<"[", "]">>
               ELSE CHOOSE text \in column : TRUE
    IN  except_empty(json_loads(raw))

\* one hit normalised by retrieve_sources._search (path "retrieve": the tags go
\* into a dict) or by query_memory._search (path "memory": MemoryChunk(tags=tags)
\* validates tags as List[str])
normalise_hit(path, column) ==
    LET tags == normalise_tags(column) IN
    [tags   |-> tags,
     raised |-> IF tags.kind = "JSONDecodeError" THEN "JSONDecodeError"
                ELSE IF path = "memory" /\ tags.kind # "list" THEN "ValidationError"
                ELSE "none"]

\* a tag longer than the column
LongTag == Filler(TagsColumnLimit)

\* what insert_doc writes for the tag lists of up to MaxTags tags
WrittenTags == {insert_doc_tags(tags) : tags \in UNION { [1..m -> TagWords \cup {LongTag}] : m \in 0..MaxTags }}

\* other texts a writer of the collection may have left in the column
OtherTags == { <<>>, <<"g","o">>, <<"[", Quote, "g","o">>, <<"[", Quote, "g","o", Quote, ",", "]">>,
               <<"[", Quote, "g","o", Quote, ",", Quote, "u","p", Quote, "]">>,
               <<"n","u","l","l">>, <<"5">>, <<Quote, "g","o", Quote>> }

ColumnValues == {{}} \cup {{text} : text \in WrittenTags \cup OtherTags}

NormaliseCall ==
    /\ ret = <<>>
    /\ ret' = << normalise_hit(arg.path, arg.column) >>
    /\ UNCHANGED <<cmsg, cres, arg, sysvars>>

InitNormalise ==
    /\ cmsg = <<>>
    /\ cres = "none"
    /\ arg \in [path : {"retrieve", "memory"}, column : ColumnValues]
    /\ ret = <<>>
    /\ dim = [schema |-> EMBEDDINGS_DIM, model |-> EMBEDDINGS_DIM, coll |-> EMBEDDINGS_DIM]
    /\ InitHandlers
    /\ coll = Absent
    /\ sec = Absent
    /\ rows = <<>>
    /\ nVisible = 0

SpecNormalise == InitNormalise /\ [][NormaliseCall]_vars

(***************************************************************************)
(* main.py and security_memory/router.py: require_api_key, the first       *)
(* statement of every handler but /health and /metrics                     *)
(***************************************************************************)
\* request.headers.get("X-API-Key", ""): the header as a set of at most one
\* value ({} is no header)
incoming_key(header) == IF header = {} THEN "" ELSE CHOOSE value \in header : TRUE

\* a key check that takes any key that is present
require_api_key_lax(server_key, header) ==
    IF server_key = ""
    THEN HttpError(500, "EDGE_API_KEY is not set on the server.")
    ELSE IF incoming_key(header) = ""
    THEN HttpError(401, "Missing X-API-Key header.")
    ELSE NoOut

\* require_api_key: the HTTPException it raises, or NoOut when it returns
require_api_key(server_key, header) ==
    IF server_key = ""
    THEN HttpError(500, "EDGE_API_KEY is not set on the server.")
    ELSE IF incoming_key(header) = ""
    THEN HttpError(401, "Missing X-API-Key header.")
    ELSE IF incoming_key(header) # server_key
    THEN HttpError(403, "Invalid API key.")
    ELSE NoOut

\* the handlers that begin with require_api_key(request)
Protected == {"ingest", "chat", "debug_chat", "debug_retrieve", "debug_prompt",
              "debug_ollama", "memory_query", "memory_health"}

\* require_api_key returned for request r
KeyAccepted(r) == require_api_key(arg.key, arg.header[r]) = NoOut

\* a request to a protected endpoint whose key check raises: the HTTPException
\* leaves the handler before its try block
KeyRejected(r, endpoint) ==
    /\ kind[r] = "none"
    /\ LoopFree(r)
    /\ ~KeyAccepted(r)
    /\ kind' = [kind EXCEPT ![r] = endpoint]
    /\ pc' = [pc EXCEPT ![r] = "done"]
    /\ out' = [out EXCEPT ![r] = require_api_key(arg.key, arg.header[r])]
    /\ cause' = [cause EXCEPT ![r] = "key"]
    /\ UNCHANGED <<cmsg, cres, arg, ret, dim, ens, pay, loc, trace, coll, rows, nVisible, sec, up,
                   hist, createCollectionCalls, createIndexCalls,
                   INGEST_COUNT, CHAT_COUNT, ERROR_COUNT>>

ServerKeys == {"", "k1"}

Headers == {{}, {""}, {"k1"}, {"k2"}}

(* Requests to the protected endpoints, with every server key and every
   X-API-Key header, over a store that answers. *)
InitAuth ==
    /\ cmsg = <<>>
    /\ cres = "none"
    /\ arg \in [key : ServerKeys, header : [Reqs -> Headers]]
    /\ ret = <<>>
    /\ dim = [schema |-> EMBEDDINGS_DIM, model |-> EMBEDDINGS_DIM, coll |-> EMBEDDINGS_DIM]
    /\ InitHandlers
    /\ sec = Absent
    /\ coll = Indexed
    /\ rows = <<>>
    /\ nVisible = 0

NextAuth ==
    \/ \E r \in Reqs : \E endpoint \in Protected : KeyRejected(r, endpoint)
    \/ \E r \in Reqs : KeyAccepted(r) /\ IngestStart(r, "docA")
    \/ \E r \in Reqs : KeyAccepted(r) /\ ChatStart(r, "chat", <<"h","i">>, "None")
    \/ \E r \in Reqs : KeyAccepted(r) /\ ChatStart(r, "debug_chat", <<"h","i">>, "None")
    \/ \E r \in Reqs : KeyAccepted(r) /\ MemQueryStart(r, FALSE, FALSE)
    \/ \E r \in Reqs : KeyAccepted(r) /\ MemoryHealth(r, FALSE, "count")
    \/ \E r \in Reqs : IngestEnsured(r)
    \/ \E r \in Reqs : IngestEmbedded(r)
    \/ \E r \in Reqs : IngestInsert(r)
    \/ \E r \in Reqs : IngestFlush(r)
    \/ \E r \in Reqs : EnsHasCollection(r)
    \/ \E r \in Reqs : EnsOpen(r)
    \/ \E r \in Reqs : EnsHasIndex(r)
    \/ \E r \in Reqs : EnsLoad(r)
    \/ \E r \in Reqs : ChatEmbedded(r)
    \/ \E r \in Reqs : ThreadSearch(r)
    \/ \E r \in Reqs : ChatRetrieved(r)
    \/ \E r \in Reqs : ChatPromptBuilt(r)
    \/ \E r \in Reqs : ChatGenerated(r)
    \/ \E r \in Reqs : ChatServiceFailed(r)
    \/ \E r \in Reqs : MemQueryEmbedded(r)
    \/ \E r \in Reqs : MemQuerySearched(r)

SpecAuth == InitAuth /\ [][NextAuth]_vars

(***************************************************************************)
(* build_prompt applied on its own                                         *)
(***************************************************************************)
MaxSources == 2

Titles == {"docA", "docB"}

\* the source lists of up to n records
SourceLists(n) ==
    UNION { { [i \in 1..m |-> [title |-> f[i]]] : f \in [1..m -> Titles] } : m \in 0..n }

\* what build_prompt may get as detail_level
TierInputs == {"None", "basic", "standard", "advanced"}

PromptCall ==
    /\ ret = <<>>
    /\ ret' = << prompt_blocks(build_prompt(arg.question, arg.sources, arg.tier)) >>
    /\ UNCHANGED <<cmsg, cres, arg, sysvars>>

InitPrompt ==
    /\ cmsg = <<>>
    /\ cres = "none"
    /\ arg \in [question : ChatMsgs, sources : SourceLists(MaxSources), tier : TierInputs]
    /\ ret = <<>>
    /\ dim = [schema |-> EMBEDDINGS_DIM, model |-> EMBEDDINGS_DIM, coll |-> EMBEDDINGS_DIM]
    /\ InitHandlers
    /\ coll = Absent
    /\ sec = Absent
    /\ rows = <<>>
    /\ nVisible = 0

SpecPrompt == InitPrompt /\ [][PromptCall]_vars

(***************************************************************************)
(* retrieve_sources applied on its own, over every small corpus            *)
(***************************************************************************)
MaxRows == 3

MaxK == 2

\* the corpora of up to n flushed rows
Corpora(n) ==
    UNION { { [i \in 1..m |-> [id |-> "uuid", doc |-> f[i],
                                vec |-> EmbedOf(DocText(f[i])), by |-> NoReq]] :
              f \in [1..m -> Docs] } : m \in 0..n }

\* the k a caller may pass: none, or a number
KInputs == {{}} \cup {{n} : n \in 0..MaxK}

RetrieveCall ==
    /\ ret = <<>>
    /\ ret' = << retrieve_sources(arg.query, arg.k) >>
    /\ UNCHANGED <<cmsg, cres, arg, sysvars>>

InitRetrieve ==
    /\ cmsg = <<>>
    /\ cres = "none"
    /\ arg \in [query : ChatMsgs, k : KInputs]
    /\ ret = <<>>
    /\ dim = [schema |-> EMBEDDINGS_DIM, model |-> EMBEDDINGS_DIM, coll |-> EMBEDDINGS_DIM]
    /\ InitHandlers
    /\ coll = [Indexed EXCEPT !.loaded = TRUE]
    /\ sec = Absent
    /\ rows \in Corpora(MaxRows)
    /\ nVisible = Len(rows)

SpecRetrieve == InitRetrieve /\ [][RetrieveCall]_vars

(***************************************************************************)
(* Properties of the chat orchestrator (SpecChat)                          *)
(***************************************************************************)
\* the stage that the detail text of a timeout response names, "none" when it names none
StageNamedBy(detail) ==
    IF detail = "Retrieve timed out." THEN "retrieve"
    ELSE IF detail = "Prompt build timed out." THEN "prompt"
    ELSE IF detail = "Generate timed out." THEN "generate"
    ELSE "none"

\* the event that opens a stage in trace
StartOf(stage) ==
    IF stage = "retrieve" THEN "retrieve+"
    ELSE IF stage = "prompt" THEN "prompt+"
    ELSE "generate+"

\* C1: when a stage of a chat request exceeds its own budget, no later stage has
\* started, the response carries no answer, and the failure reported to the
\* caller identifies the stage that timed out.
C1_StageTimeoutNamesStage ==
    \A r \in Reqs :
        (kind[r] = "chat" /\ pc[r] = "done" /\ cause[r] \in Stages) =>
            /\ trace[r][Len(trace[r])] = StartOf(cause[r])
            /\ ~out[r].hasAnswer
            /\ out[r].status = 504
            /\ StageNamedBy(out[r].detail) = cause[r]

\* C2: a request that ran out of its total budget while every stage stayed within
\* its own, and a request of the same endpoint whose stage ran out of its own
\* budget, receive different outcomes.
C2_TotalTimeoutDistinct ==
    \A r1, r2 \in Reqs :
        ( /\ IsChat(r1) /\ kind[r1] = kind[r2]
          /\ pc[r1] = "done" /\ pc[r2] = "done"
          /\ cause[r1] \in Stages /\ cause[r2] = "total" ) =>
            out[r1] # out[r2]

StageOrder == <<"retrieve+", "retrieve-", "prompt+", "prompt-", "generate+", "generate-">>

IsPrefix(s, t) == Len(s) <= Len(t) /\ s = SubSeq(t, 1, Len(s))

Events(r) == {trace[r][i] : i \in 1..Len(trace[r])}

\* the stages of request r that have started and not completed
InProgress(r) ==
    {st \in Stages : StartOf(st) \in Events(r)
                     /\ Len(trace[r]) > 0 /\ trace[r][Len(trace[r])] = StartOf(st)}

\* C3: the stages of one chat invocation run in the order retrieve, prompt,
\* generate, each starting only after the one before it completed, at most one in
\* progress at a time; the prompt is built from the sources that the retrieve stage
\* of that same invocation returned, and that prompt is what generate receives.
C3_StagesSequential ==
    \A r \in Reqs :
        IsChat(r) =>
            /\ IsPrefix(trace[r], StageOrder)
            /\ Cardinality(InProgress(r)) <= 1
            /\ "prompt+" \in Events(r) =>
                   /\ hist[r].searched
                   /\ loc[r].sources = loc[r].hits
            /\ "generate+" \in Events(r) =>
                   loc[r].prompt =
                       build_prompt(pay[r].message, loc[r].hits, pay[r].detail_level)
            /\ out[r].hasAnswer =>
                   /\ "generate-" \in Events(r)
                   /\ out[r].answerTo = loc[r].prompt
                   /\ out[r].sources = loc[r].hits

\* a chat request answered from the two documents of the corpus
C3_Witness ==
    \E r \in Reqs :
        /\ kind[r] = "chat" /\ pc[r] = "done"
        /\ out[r].hasAnswer
        /\ Len(out[r].sources) = Len(OldRows)
        /\ trace[r] = StageOrder

(***************************************************************************)
(* Properties of the tier of a chat request (SpecDetail)                   *)
(***************************************************************************)
\* C10: a chat request that supplies no detail level gets the tier that the
\* classifier computes from its question.
C10_AbsentLevelIsClassified ==
    \A r \in Reqs :
        (kind[r] = "chat" /\ pay[r].given = "absent" /\ loc[r].prompt # NoPrompt) =>
            loc[r].prompt.level = classify_detail_level(pay[r].message)

(***************************************************************************)
(* Properties of the primary corpus (SpecStore)                            *)
(***************************************************************************)
\* what ensure_collection leaves: the collection, one index on the vector field, loaded
Ensured(c) == c.exists /\ c.indexes = {VectorField} /\ c.loaded

\* C4: from every start-up state, once a call of ensure_collection has returned
\* the collection exists, has exactly one index, on the vector field, and is
\* loaded; a call that starts after one has returned issues no create-collection
\* and no create-index and leaves the store as it was.
C4_EnsureIdempotent ==
    [][ /\ AnyReturned' => Ensured(coll')
        /\ \A r \in Reqs :
               (hist[r].after /\ ens'[r] # ens[r]) =>
                   /\ coll' = coll
                   /\ createCollectionCalls' = createCollectionCalls
                   /\ createIndexCalls' = createIndexCalls
                   /\ rows' = rows ]_vars

\* an ingest whose second call of ensure_collection has returned, after the
\* first call had to create the collection and its index
C4_Witness ==
    \E r \in Reqs :
        /\ kind[r] = "ingest" /\ pc[r] = "i_embed"
        /\ createCollectionCalls = 1
        /\ createIndexCalls = 1
        /\ Ensured(coll)

\* the rows that request r wrote
RowsBy(r) == {i \in 1..Len(rows) : rows[i].by = r}

\* C5: an ingest reports success only after its row was written and then
\* flushed; every search of a retrieval that started after a successful ingest
\* had returned has that ingest's row among its candidates.
C5_IngestVisibleToLaterSearch ==
    \A r \in Reqs :
        /\ (kind[r] = "ingest" /\ pc[r] = "i_flush") => loc[r].rowIdx \in RowsBy(r)
        /\ (kind[r] = "ingest" /\ out[r].status = 200) =>
               /\ loc[r].rowIdx \in RowsBy(r)
               /\ loc[r].rowIdx <= nVisible
        /\ (IsChat(r) /\ hist[r].searched) =>
               \A i \in hist[r].acked :
                   /\ i <= hist[r].seen
                   /\ hist[r].seen <= RAG_TOP_K =>
                          \E h \in 1..Len(loc[r].hits) : loc[r].hits[h].by = rows[i].by

\* a chat request that started after a successful ingest and has searched
C5_Witness ==
    \E r \in Reqs :
        /\ IsChat(r) /\ hist[r].searched
        /\ hist[r].acked # {}
        /\ Len(loc[r].hits) >= 1

\* C6: every successful ingest owns exactly one row, also when the same document
\* was ingested before; a step adds at most one row, only the insert of an ingest
\* adds one, and no step changes or removes a row; chat and health requests own
\* no row.
C6_OneRowPerIngest ==
    [][ /\ IsPrefix(rows, rows')
        /\ Len(rows') <= Len(rows) + 1
        /\ Len(rows') > Len(rows) =>
               \E r \in Reqs : /\ kind[r] = "ingest"
                               /\ pc[r] = "i_insert" /\ pc'[r] = "i_flush"
                               /\ rows'[Len(rows')].by = r
        /\ \A r \in Reqs :
               /\ (kind'[r] = "ingest" /\ out'[r].status = 200) =>
                      Cardinality({i \in 1..Len(rows') : rows'[i].by = r}) = 1
               /\ kind'[r] # "ingest" =>
                      {i \in 1..Len(rows') : rows'[i].by = r} = {} ]_vars

\* two successful ingests of the same document, and a chat request and a health
\* check besides
C6_Witness ==
    \E r1, r2 \in Reqs :
        /\ r1 # r2
        /\ kind[r1] = "ingest" /\ out[r1].status = 200
        /\ kind[r2] = "ingest" /\ out[r2].status = 200
        /\ pay[r1].doc = pay[r2].doc
        /\ Len(rows) = 2

(***************************************************************************)
(* Properties of the health checks (SpecHealth)                            *)
(***************************************************************************)
IsHealth(r) == kind[r] \in {"health", "memory_health"} /\ pc[r] = "done"

\* C7 as stated: health never throws; for every store failure (unreachable,
\* collection missing, statistics unavailable) the check returns normally with
\* ok false and the row count absent; ok is true only when the store was reached.
C7_EveryFailureNotOk ==
    \A r \in Reqs :
        IsHealth(r) =>
            /\ out[r].status = 200
            /\ cause[r] \in {"unreachable", "no collection", "load raised", "stats raised"} =>
                   (out[r].ok = "false" /\ out[r].points = "absent")
            /\ out[r].ok = "true" => cause[r] # "unreachable"

\* C7 amended: health never throws; when the store cannot be reached or a store
\* call of the check raises, the check returns normally with ok false and the row
\* count absent; ok is true only when the store was reached; a missing collection
\* is not a failure: with the store reachable ok is true and the row count absent.
C7_RaisedFailureNotOk ==
    \A r \in Reqs :
        IsHealth(r) =>
            /\ out[r].status = 200
            /\ cause[r] \in {"unreachable", "load raised", "stats raised"} =>
                   (out[r].ok = "false" /\ out[r].points = "absent")
            /\ out[r].ok = "true" => cause[r] \in {"none", "no collection"}
            /\ cause[r] = "no collection" =>
                   (out[r].ok = "true" /\ out[r].points = "absent")

\* a primary check of an unreachable store beside a security-memory check whose
\* collection is missing
C7_Witness ==
    \E r1, r2 \in Reqs :
        /\ kind[r1] = "health" /\ pc[r1] = "done"
        /\ cause[r1] = "unreachable" /\ out[r1].ok = "false"
        /\ kind[r2] = "memory_health" /\ pc[r2] = "done"
        /\ cause[r2] = "no collection" /\ out[r2].ok = "true"

(***************************************************************************)
(* Properties of the classifier (SpecClassify)                             *)
(***************************************************************************)
\* the decision rule in which the structural signal counts as a signal of the
\* basic test
StatedRule(message) ==
    LET m == Strip(message)
        fired == {s \in Signals :
                     \/ s = "code"   /\ has_code_block(m)
                     \/ s = "cli"    /\ has_cli(m)
                     \/ s = "logs"   /\ has_logs(m)
                     \/ s = "proto"  /\ has_protocols(m)
                     \/ s = "acr"    /\ has_acronyms(m)
                     \/ s = "struct" /\ long_or_multi(m)}
        strong == fired \cap {"code", "cli", "logs"}
        score == 2 * Cardinality(strong) + Cardinality(fired \ strong)
    IN  IF m = <<>> THEN "basic"
        ELSE IF score >= AdvancedMin THEN "advanced"
        ELSE IF Len(m) <= BasicMaxLen /\ fired = {} THEN "basic"
        ELSE "standard"

\* C8: the classifier returns basic for a blank message, advanced for a score of
\* at least three, basic for a message of at most sixty characters on which none
\* of the six signals fired (the structural one included), and standard otherwise.
C8_StatedDecisionRule == cres # "none" => cres = StatedRule(cmsg)

\* C9 as stated: the message "docker run -it ubuntu" scores at least three and is
\* classified advanced.
C9_DockerRunAdvanced ==
    (cmsg = DockerRunMsg /\ cres # "none") =>
        (advanced_score(Strip(cmsg)) >= AdvancedMin /\ cres = "advanced")

\* C9 amended: the message "docker run -it ubuntu" fires the CLI signal alone,
\* scores two and is classified standard.
C9_DockerRunStandard ==
    (cmsg = DockerRunMsg /\ cres # "none") =>
        /\ has_cli(Strip(cmsg))
        /\ ~has_code_block(Strip(cmsg)) /\ ~has_logs(Strip(cmsg))
        /\ ~has_protocols(Strip(cmsg)) /\ ~has_acronyms(Strip(cmsg))
        /\ ~long_or_multi(Strip(cmsg))
        /\ advanced_score(Strip(cmsg)) = 2
        /\ cres = "standard"

\* the classifier has answered for "docker run -it ubuntu"
C9_Witness == cmsg = DockerRunMsg /\ cres = "standard"

(***************************************************************************)
(* Properties of build_prompt (SpecPrompt)                                 *)
(***************************************************************************)
BlockNames(blocks) == [i \in 1..Len(blocks) |-> blocks[i][1]]

\* C11: build_prompt gives the same string for the same (question, sources, tier);
\* with only the tier changed the strings differ in nothing but the style block
\* and the level line; the rules, the sources (numbered from 1 in input order, or
\* the placeholder when there are none) and the verbatim question follow in that
\* fixed order.
C11_PromptDependsOnTierInTwoBlocks ==
    ret # <<>> =>
        /\ Result = prompt_blocks(build_prompt(arg.question, arg.sources, arg.tier))
        /\ BlockNames(Result) = <<"rules", "style", "level", "sources", "question", "answer">>
        /\ Result[4][2] = IF arg.sources = <<>>
                       THEN << [n |-> 0, title |-> "(no sources retrieved)"] >>
                       ELSE [i \in 1..Len(arg.sources) |->
                                [n |-> i, title |-> arg.sources[i].title]]
        /\ Result[5][2] = arg.question
        /\ \A t \in TierInputs :
               LET other == prompt_blocks(build_prompt(arg.question, arg.sources, t))
               IN  /\ Len(other) = Len(Result)
                   /\ \A i \in 1..Len(Result) :
                          other[i] # Result[i] => Result[i][1] \in {"style", "level"}

\* a prompt built for a beginner from two sources
C11_Witness ==
    /\ ret # <<>>
    /\ arg.tier = "basic"
    /\ Len(arg.sources) = MaxSources
    /\ Result[3][2] = "basic"

(***************************************************************************)
(* Properties of retrieve_sources (SpecRetrieve)                           *)
(***************************************************************************)
\* C12: for every query, corpus and k the caller passes, retrieve returns at most
\* k records, in non-increasing order of their distance value.
C12_AtMostKBestFirst ==
    ret # <<>> =>
        /\ \A n \in arg.k : Len(Result) <= n
        /\ \A i \in 1..Len(Result) : \A j \in i..Len(Result) :
               Result[i].distance >= Result[j].distance

C14_OneVectorPerText ==
    ret # <<>> =>
        /\ Result.outcome = "ok" =>
               /\ Len(Result.vectors) = Len(arg.texts)
               /\ \A i \in 1..Len(Result.vectors) : Result.vectors[i] = EMBEDDINGS_DIM
        /\ (arg.response.kind = "answer" /\ arg.response.embeddings = <<>>) =>
               Result.outcome \notin {"ok", "httpx.HTTPError"}
        /\ arg.response.kind # "answer" => Result.outcome = "httpx.HTTPError"

(***************************************************************************)
(* Properties of the vector width (SpecDim)                                *)
(***************************************************************************)
\* C15: when the width of the schema's vector field differs from the width of
\* the embedding model's output, ensure_collection fails when it creates the
\* collection: no collection of another width than the model's comes to exist,
\* and no insert or search is attempted against one.
C15_MismatchFailsAtCreation ==
    /\ coll.exists => dim.coll = dim.model
    /\ \A r \in Reqs :
           (pc[r] = "i_insert" \/ (pc[r] = "c_search" /\ ens[r] = "ret")) =>
               dim.coll = dim.model

(***************************************************************************)
(* Properties of the worker thread of the vector search (SpecDetail)       *)
(***************************************************************************)
\* the worker thread of request r's _search is running
SearchRunning(r) ==
    IsChat(r) /\ pc[r] = "c_search" /\ ens[r] \notin {"hits", "exc"}

\* C16: while the worker thread of one request's vector search runs, the event
\* loop is not held: every other request can start, can hand its own search to
\* a thread and receive its hits, and is free to run its later stages; and the
\* sources a request receives are the hits
\* of its own query, never those of another request's search.
C16_SearchDoesNotHoldLoop ==
    /\ \A r \in Reqs : SearchRunning(r) =>
           \A q \in Reqs \ {r} :
               /\ kind[q] = "none" =>
                      ENABLED ChatStart(q, "chat", <<"h","i">>, "None")
               /\ (IsChat(q) /\ pc[q] = "c_embed") => ENABLED ChatEmbedded(q)
               /\ (IsChat(q) /\ pc[q] = "c_search" /\ ens[q] = "hits") =>
                      ENABLED ChatRetrieved(q)
               /\ (IsChat(q) /\ pc[q] \in {"c_prompt", "c_gen"}) => LoopFree(q)
    /\ \A r \in Reqs :
           (IsChat(r) /\ pc[r] \in {"c_prompt", "c_gen", "done"}) =>
               /\ loc[r].sources = retrieve_sources(pay[r].message, {})
               /\ pc[r] = "done" => out[r].sources = loc[r].sources

\* one request's search thread is running while another request, which asked
\* another question, has been answered with the sources of its own question
C16_Witness ==
    \E r, q \in Reqs :
        /\ SearchRunning(r) /\ ens[r] = "ret"
        /\ kind[q] = "chat" /\ pc[q] = "done" /\ out[q].status = 200
        /\ pay[q].message # pay[r].message
        /\ out[q].sources = retrieve_sources(pay[q].message, {})
        /\ out[q].sources # retrieve_sources(pay[r].message, {})

(***************************************************************************)
(* Properties of the request counters (SpecStore)                          *)
(***************************************************************************)
\* the finished /ingest or /chat requests (k) that were answered 200 or not (ok)
Finished(k, ok) ==
    {r \in Reqs : kind[r] = k /\ pc[r] = "done" /\ (out[r].status = 200) = ok}

\* C17: under every interleaving of /ingest and /chat requests, at every moment
\* and so once all have finished, INGEST_COUNT is the number of ingests that
\* succeeded, CHAT_COUNT the number of chats that succeeded, and ERROR_COUNT the
\* number of ingests and chats that failed or timed out: each finished request
\* has changed exactly one counter by one and no update is lost.
C17_CountersMatchOutcomes ==
    /\ INGEST_COUNT = Cardinality(Finished("ingest", TRUE))
    /\ CHAT_COUNT = Cardinality(Finished("chat", TRUE))
    /\ ERROR_COUNT = Cardinality(Finished("ingest", FALSE) \cup Finished("chat", FALSE))

\* every request has finished, and two of them moved the same counter
C17_Witness ==
    /\ \A r \in Reqs : kind[r] \in {"ingest", "chat"} /\ pc[r] = "done"
    /\ \/ INGEST_COUNT = NumReqs
       \/ CHAT_COUNT = NumReqs
       \/ ERROR_COUNT = NumReqs

(***************************************************************************)
(* Properties of concurrent ensure_collection calls (SpecStore)            *)
(***************************************************************************)
\* C18: under every interleaving of concurrent ensure_collection calls, the
\* creation of the primary collection and the creation of its index are each
\* issued at most once.
C18_CreatedOnce ==
    /\ createCollectionCalls <= 1
    /\ createIndexCalls <= 1

(***************************************************************************)
(* Properties of the security-memory collection (SpecMemory)               *)
(***************************************************************************)
\* C19: from every start state of the security-memory collection, also one
\* where it exists without an index, once the ensure step of a query has
\* returned the vector index exists and the collection is loaded, so the
\* search that follows runs against an indexed, loaded collection.
C19_EnsuredMeansIndexedAndLoaded ==
    \A r \in Reqs :
        (kind[r] = "memory_query" /\ pc[r] \in {"m_embed", "m_search"}) =>
            /\ sec.indexes # {}
            /\ sec.loaded

(***************************************************************************)
(* Properties of the tags of a hit (SpecNormalise)                         *)
(***************************************************************************)
\* the JSON text that the normalisation reads for the column value of the call
RawTags == IF arg.column = {} \/ arg.column = {<<>>} THEN <<"[", "]">>
           ELSE CHOOSE text \in arg.column : TRUE

\* the call yielded a list, the empty one when the value does not parse, and
\* raised nothing
YieldsList ==
    /\ Result.raised = "none"
    /\ Result.tags.kind = "list"
    /\ json_loads(RawTags) = JSONDecodeError => Result.tags.items = <<>>

Unauthorised(r) ==
    \/ arg.key = ""
    \/ arg.header[r] = {}
    \/ arg.header[r] # {arg.key}

\* the status the rejection of such a request carries: 500 when the server key
\* is unset, else 401 when no header came, else 403 when the header holds
\* another key (an empty header value is answered as missing or as wrong)
RejectionStatus(r) ==
    IF arg.key = "" THEN {500}
    ELSE IF arg.header[r] = {} THEN {401}
    ELSE IF arg.header[r] = {""} THEN {401, 403}
    ELSE {403}

\* C21: a request to /ingest, /chat, a /debug endpoint or a /memory endpoint
\* whose X-API-Key header is missing or differs from the server key, or that
\* arrives while the server key is unset, is rejected with 401, 403 or 500
\* before its handler embeds, asks the vector store or generates anything,
\* and its arrival leaves the store and INGEST_COUNT, CHAT_COUNT and
\* ERROR_COUNT unchanged.
C21_RejectedBeforeAnyCall ==
    [][\A r \in Reqs : Unauthorised(r) =>
          /\ \/ kind'[r] = "none"
             \/ /\ kind'[r] \in Protected
                /\ pc'[r] = "done"
                /\ out'[r].status \in RejectionStatus(r)
                /\ ~out'[r].hasAnswer
                /\ loc'[r] = NoLoc
                /\ ens'[r] = "idle"
                /\ trace'[r] = <<>>
          /\ (kind[r] = "none" /\ kind'[r] # "none") =>
                 UNCHANGED <<coll, sec, rows, nVisible, createCollectionCalls,
                             createIndexCalls, INGEST_COUNT, CHAT_COUNT, ERROR_COUNT>>
      ]_vars

\* a request with another key than the server's was answered 403, while a
\* request with the server's key was ingested and counted
C21_Witness ==
    \E r, q \in Reqs :
        /\ Unauthorised(r) /\ kind[r] = "ingest" /\ pc[r] = "done"
        /\ out[r].status = 403
        /\ ~Unauthorised(q) /\ kind[q] = "ingest" /\ out[q].status = 200
        /\ INGEST_COUNT = 1 /\ ERROR_COUNT = 0
        /\ Len(rows) = 1

====
